---- MODULE Spec2Model ----
(***************************************************************************)
(* LKMM primitives for Rust (litmus-tests/src/lib.rs): SharedMem with      *)
(* read_once / write_once / smp_mb / smp_store_release, RcuPtr with        *)
(* rcu_dereference / rcu_assign_pointer, and the litmus tests that drive   *)
(* them from two threads.                                                  *)
(*                                                                         *)
(* The volatile accesses compile to one aligned machine load or store, so  *)
(* what a run can observe is decided by the target the crate is built for. *)
(* The machine below is the usual operational one: every thread fetches    *)
(* its calls in program order, performs them in any order the target's     *)
(* preserved program order allows, and its stores sit in a private store   *)
(* buffer (forwarded to its own loads) until they are flushed to the one   *)
(* shared memory.                                                          *)
(*   x86_64  : in-order issue, FIFO store buffer, mfence drains it (TSO).  *)
(*   aarch64 : out-of-order issue that keeps dependencies, accesses to one *)
(*             location, dmb ish and stlr in order.                        *)
(*   other   : any target selected by neither #[cfg]; the issue rules of a *)
(*             weakly ordered machine, and the bodies of smp_mb and        *)
(*             smp_store_release are empty.                                *)
(* The volatile accesses are kept in program order by the compiler         *)
(* (volatile accesses are not reordered with one another, and asm! without *)
(* nomem is a compiler barrier), so every reordering below is the          *)
(* machine's.  A conditional call waits for its guard: the only            *)
(* conditional load of the tests (r0.read_once() under `if let Some(r0)`)  *)
(* also takes its address from the guard.                                  *)
(***************************************************************************)
EXTENDS Integers, Sequences, FiniteSets

VARIABLES arch, scen, mem, mo, prog, st, ret, opt, obs, buf, owned, leaked,
          freed, halted, mainpc, failed

vars == <<arch, scen, mem, mo, prog, st, ret, opt, obs, buf, owned, leaked,
          freed, halted, mainpc, failed>>

(* ---------------------------- bounds ----------------------------------- *)
(* Threads of a client family, and the calls one run of the Cells family   *)
(* and of the Rcu family makes.                                            *)
NThreads == 2
MaxCalls == 3
MaxRcuCalls == 4

Threads == 1..NThreads

(* ------------------------- memory layout ------------------------------- *)
Null == 0
X == 1
Y == 2
P == 3
O1 == 4
O2 == 5

Cells == {X, Y, P, O1, O2}
Objects == {O1, O2}

Archs == {"x86_64", "aarch64", "other"}

(* SharedMem::new(val) *)
New(val) == val

(* An RcuPtr constructed with NonNull::dangling() in place of null_mut(). *)
RcuPtrDangling == New(1)

(* RcuPtr::new(): the backing cell holds null_mut() as usize *)
RcuPtrNew == New(Null)

(* ------------------------------ calls ---------------------------------- *)
(* addr: the cell the call is made on (Null when it comes from `src`);     *)
(* src : index of the earlier rcu_dereference whose Some(r) is the cell    *)
(*       (address dependency), 0 when none;                                *)
(* cond: index of the earlier call whose result guards this one (control   *)
(*       dependency: `if r0 != 0`, `if let Some(r0)`), 0 when none.        *)
Ins(op, addr, val, src, cond) ==
    [op |-> op, addr |-> addr, val |-> val, src |-> src, cond |-> cond]

R(a) == Ins("read_once", a, 0, 0, 0)
W(a, v) == Ins("write_once", a, v, 0, 0)
Mb == Ins("smp_mb", Null, 0, 0, 0)
Rel(a, v) == Ins("smp_store_release", a, v, 0, 0)
Deref(p) == Ins("rcu_dereference", p, 0, 0, 0)
Assign(p, o) == Ins("rcu_assign_pointer", p, o, 0, 0)

(* ------------------------- the litmus tests ---------------------------- *)
CoRR == <<
    << W(X, 1) >>,
    << R(X), R(X) >> >>

LB == <<
    << R(X), Ins("write_once", Y, 1, 0, 1) >>,
    << R(Y), Mb, W(X, 1) >> >>

MP == <<
    << W(X, 1), W(Y, 1) >>,
    << R(Y), R(X) >> >>

MPRcu == <<
    << W(O1, 1), Assign(P, O1) >>,
    << Deref(P), Ins("read_once", Null, 0, 1, 1) >> >>

(* Store buffering with a full barrier between the store and the load of  *)
(* each thread.                                                            *)
SB == <<
    << W(X, 1), Mb, R(Y) >>,
    << W(Y, 1), Mb, R(X) >> >>

(* Store buffering with release stores and no barrier. *)
SBRel == <<
    << Rel(X, 1), R(Y) >>,
    << Rel(Y, 1), R(X) >> >>

(* Two boxes published one after the other, each with its marker written  *)
(* first; the reader dereferences twice and reads the marker each time.    *)
MPRcu2 == <<
    << W(O1, 1), Assign(P, O1), W(O2, 1), Assign(P, O2) >>,
    << Deref(P), Ins("read_once", Null, 0, 1, 1),
       Deref(P), Ins("read_once", Null, 0, 3, 3) >> >>

Litmus == [CoRR |-> CoRR, LB |-> LB, MP |-> MP, MPRcu |-> MPRcu, SB |-> SB,
           SBRel |-> SBRel, MPRcu2 |-> MPRcu2]

Code(s, t) == IF t \in DOMAIN Litmus[s] THEN Litmus[s][t] ELSE << >>

(* The value the n-th call of thread t writes in the Cells family: no two  *)
(* calls write the same value, and none writes the initial 0.              *)
Fresh(t, n) == t * (MaxCalls + 1) + n

(* The thread whose closure owns box o when it is spawned, 0 for no box:   *)
(* the test moves x into p0; in the Rcu family thread 1 owns O1 and        *)
(* thread 2 owns O2; the publisher of two boxes owns both.                 *)
InitOwned(s) ==
    [o \in Objects |-> IF s = "MPRcu" THEN (IF o = O1 THEN 1 ELSE 0)
                       ELSE IF s = "MPRcu2" THEN 1
                       ELSE IF s = "Rcu" THEN (IF o = O1 THEN 1 ELSE 2)
                       ELSE 0]

(* ------------------------------ Init ----------------------------------- *)
(* What each cell is constructed with: SharedMem::new(0), RcuPtr::new(). *)
InitVal(a) == IF a = P THEN RcuPtrNew ELSE New(0)

InitIn(S) ==
    /\ arch \in Archs
    /\ scen \in S
    /\ mem = [a \in Cells |-> InitVal(a)]
    /\ mo = [a \in Cells |-> << mem[a] >>]
    /\ prog = [t \in Threads |-> << >>]
    /\ st = [t \in Threads |-> << >>]
    /\ ret = [t \in Threads |-> << >>]
    /\ opt = [t \in Threads |-> << >>]
    /\ obs = [t \in Threads |-> << >>]
    /\ buf = [t \in Threads |-> << >>]
    /\ owned = InitOwned(scen)
    /\ leaked = {}
    /\ freed = {}
    /\ halted = [t \in Threads |-> FALSE]
    /\ mainpc = "scope"
    /\ failed = FALSE

(* The litmus tests. *)
Init == InitIn(DOMAIN Litmus)

(* Clients making any calls on the one cell X. *)
InitCells == InitIn({"Cells"})

(* Clients making any calls on the one RcuPtr P and on the boxes they own. *)
InitRcu == InitIn({"Rcu"})

(* ------------------------ helpers on a thread -------------------------- *)
Idx(t) == 1..Len(prog[t])

(* The calls that end in a release store. *)
IsRelease(i) == i.op \in {"smp_store_release", "rcu_assign_pointer"}

(* A dereference that takes the low bit of the pointer for a tag and      *)
(* clears it.                                                              *)
NonNullMasked(ptr) == IF ptr - (ptr % 2) = Null THEN {} ELSE {ptr - (ptr % 2)}

(* NonNull::new(ptr): None for the null pointer, Some(ptr) otherwise;      *)
(* an Option is the empty set or a singleton.                              *)
NonNullNew(ptr) == IF ptr = Null THEN {} ELSE {ptr}

(* The cell call i of thread t works on, once it is known. *)
AddrKnown(t, i) == prog[t][i].src = 0 \/ st[t][prog[t][i].src] # "fetched"
AddrOf(t, i) ==
    IF prog[t][i].src = 0 THEN prog[t][i].addr
    ELSE IF opt[t][prog[t][i].src] = {} THEN Null
    ELSE CHOOSE a \in opt[t][prog[t][i].src] : TRUE

(* The guard of a conditional call. *)
Taken(t, j) ==
    IF prog[t][j].op = "rcu_dereference" THEN opt[t][j] # {} ELSE ret[t][j] # 0

(* Does the call compile to a load or a store on this target? *)
Accesses(i) ==
    /\ i.op # "smp_mb"
    /\ IsRelease(i) => arch \in {"aarch64", "x86_64"}

(* The order kept when read_once and write_once are plain accesses, which  *)
(* may be reordered even on one location.                                  *)
OrderedPlain(t, j, i) ==
    LET a == prog[t][j]
        b == prog[t][i]
    IN  \/ arch = "x86_64"
        \/ b.src = j
        \/ b.cond = j
        \/ /\ arch = "aarch64"
           /\ \/ a.op = "smp_mb"
              \/ b.op = "smp_mb"
              \/ IsRelease(b)

(* Does the machine keep call j (earlier, not yet performed) before call   *)
(* i of the same thread?                                                   *)
Ordered(t, j, i) ==
    LET a == prog[t][j]
        b == prog[t][i]
    IN  \/ arch = "x86_64"
        \/ b.src = j
        \/ b.cond = j
        \/ /\ arch = "aarch64"
           /\ \/ a.op = "smp_mb"
              \/ b.op = "smp_mb"
              \/ IsRelease(b)
        \/ /\ Accesses(a)
           /\ Accesses(b)
           /\ \/ ~AddrKnown(t, j)
              \/ ~AddrKnown(t, i)
              \/ AddrOf(t, j) = AddrOf(t, i)

(* A read_once that spins until the cell holds a non-zero value. *)
CanIssueBlocking(t, i) ==
    /\ i \in Idx(t)
    /\ st[t][i] = "fetched"
    /\ \A j \in 1..(i - 1) : st[t][j] = "fetched" => ~Ordered(t, j, i)
    /\ prog[t][i].cond # 0 => Taken(t, prog[t][i].cond)
    /\ prog[t][i].op = "read_once" /\ AddrKnown(t, i) => mem[AddrOf(t, i)] # 0

CanIssue(t, i) ==
    /\ i \in Idx(t)
    /\ st[t][i] = "fetched"
    /\ \A j \in 1..(i - 1) : st[t][j] = "fetched" => ~Ordered(t, j, i)
    /\ prog[t][i].cond # 0 => Taken(t, prog[t][i].cond)

(* Index of the youngest buffered store of thread t to cell a, 0 if none. *)
LastBuf(t, a) ==
    LET S == {k \in 1..Len(buf[t]) : buf[t][k].addr = a}
    IN  IF S = {} THEN 0 ELSE CHOOSE k \in S : \A m \in S : m <= k

(* read_volatile: one load, served by the own store buffer or by memory *)
ReadVolatile(t, a) ==
    IF LastBuf(t, a) # 0 THEN buf[t][LastBuf(t, a)].val ELSE mem[a]

(* A store that writes only the low two bits of the value. *)
WriteTorn(t, a, v, rel) ==
    Append(buf[t], [addr |-> a, val |-> v % 4, rel |-> rel])

(* A store twice as wide as the cell, which also overwrites a neighbour. *)
WriteWide(t, a, v, rel) ==
    Append(Append(buf[t], [addr |-> a, val |-> v, rel |-> rel]),
           [addr |-> IF a = X THEN Y ELSE X, val |-> v, rel |-> rel])

(* write_volatile: one store, entering the own store buffer *)
WriteVolatile(t, a, v, rel) ==
    Append(buf[t], [addr |-> a, val |-> v, rel |-> rel])

Drop(s, k) == [m \in 1..(Len(s) - 1) |-> IF m < k THEN s[m] ELSE s[m + 1]]

Mark(t, i, r, o, seen) ==
    /\ st' = [st EXCEPT ![t][i] = "done"]
    /\ ret' = [ret EXCEPT ![t][i] = r]
    /\ opt' = [opt EXCEPT ![t][i] = o]
    /\ obs' = [obs EXCEPT ![t][i] = seen]

(* ----------------------------- actions --------------------------------- *)
(* The boxes thread t still owns after the calls it has made so far: a box *)
(* is moved into rcu_assign_pointer.                                       *)
Holds(t, o) ==
    /\ owned[o] = t
    /\ \A j \in Idx(t) : ~(prog[t][j].op = "rcu_assign_pointer" /\ prog[t][j].val = o)

(* The latest rcu_dereference among the calls of thread t so far, 0 if none. *)
LastDeref(t) ==
    LET S == {j \in Idx(t) : prog[t][j].op = "rcu_dereference"}
    IN  IF S = {} THEN 0 ELSE CHOOSE j \in S : \A m \in S : m <= j

(* The number of calls the threads of S have made so far. *)
RECURSIVE Calls(_)
Calls(S) ==
    IF S = {} THEN 0
    ELSE LET t == CHOOSE u \in S : TRUE IN Len(prog[t]) + Calls(S \ {t})

(* The calls thread t may make next. *)
NextCalls(t) ==
    LET n == Len(prog[t]) + 1
    IN  IF scen \in DOMAIN Litmus
        THEN IF n <= Len(Code(scen, t)) THEN {Code(scen, t)[n]} ELSE {}
        ELSE IF scen = "Cells"
        THEN IF Calls(Threads) >= MaxCalls THEN {}
             ELSE {R(X), W(X, Fresh(t, n)), Rel(X, Fresh(t, n))}
        ELSE IF Calls(Threads) >= MaxRcuCalls THEN {}
        ELSE {Deref(P)}
             \cup {Ins("read_once", Null, 0, LastDeref(t), LastDeref(t)) :
                      d \in {LastDeref(t)} \ {0}}
             \cup {W(o, 1) : o \in {b \in Objects : Holds(t, b)}}
             \cup {Assign(P, o) : o \in {b \in Objects : Holds(t, b)}}

(* May the closure of thread t return now? *)
MayReturn(t) == scen \in DOMAIN Litmus => Len(prog[t]) = Len(Code(scen, t))

(* A thread reaches its next call. *)
Call(t) ==
    /\ mainpc = "scope"
    /\ ~halted[t]
    /\ \E ins \in NextCalls(t) :
           /\ prog' = [prog EXCEPT ![t] = Append(@, ins)]
           /\ st' = [st EXCEPT ![t] = Append(@, "fetched")]
           /\ ret' = [ret EXCEPT ![t] = Append(@, 0)]
           /\ opt' = [opt EXCEPT ![t] = Append(@, {})]
           /\ obs' = [obs EXCEPT ![t] = Append(@, << >>)]
    /\ UNCHANGED <<arch, scen, mem, mo, buf, owned, leaked, freed, halted,
                   mainpc, failed>>

(* SharedMem::read_once *)
ReadOnce(t, i) ==
    /\ CanIssue(t, i)
    /\ prog[t][i].op = "read_once"
    /\ LET v == ReadVolatile(t, AddrOf(t, i))
       IN  Mark(t, i, v, {}, << v >>)
    /\ UNCHANGED <<arch, scen, mem, mo, prog, buf, owned, leaked, freed,
                   halted, mainpc, failed>>

(* SharedMem::write_once *)
WriteOnce(t, i) ==
    /\ CanIssue(t, i)
    /\ prog[t][i].op = "write_once"
    /\ buf' = [buf EXCEPT ![t] = WriteVolatile(t, AddrOf(t, i), prog[t][i].val, FALSE)]
    /\ Mark(t, i, 0, {}, << >>)
    /\ UNCHANGED <<arch, scen, mem, mo, prog, owned, leaked, freed, halted,
                   mainpc, failed>>

(* SharedMem::smp_mb: dmb ish / mfence wait for the store buffer to drain; *)
(* on any other target the body is empty.                                  *)
SmpMb(t, i) ==
    /\ CanIssue(t, i)
    /\ prog[t][i].op = "smp_mb"
    /\ arch \in {"aarch64", "x86_64"} => buf[t] = << >>
    /\ Mark(t, i, 0, {}, << >>)
    /\ UNCHANGED <<arch, scen, mem, mo, prog, buf, owned, leaked, freed,
                   halted, mainpc, failed>>

(* smp_store_release as a plain write_once on every target. *)
StorePlain(t, a, v) == Append(buf[t], [addr |-> a, val |-> v, rel |-> FALSE])

(* The store smp_store_release(val) on cell a leaves in the store buffer:  *)
(* stlr on aarch64 (a release store, kept behind every earlier access),    *)
(* asm!("") and write_once on x86_64, nothing elsewhere.                   *)
StoreRelease(t, a, v) ==
    CASE arch = "aarch64" -> WriteVolatile(t, a, v, TRUE)
      [] arch = "x86_64" -> WriteVolatile(t, a, v, FALSE)
      [] OTHER -> buf[t]

(* SharedMem::smp_store_release *)
SmpStoreRelease(t, i) ==
    /\ CanIssue(t, i)
    /\ prog[t][i].op = "smp_store_release"
    /\ buf' = [buf EXCEPT ![t] = StoreRelease(t, AddrOf(t, i), prog[t][i].val)]
    /\ Mark(t, i, 0, {}, << >>)
    /\ UNCHANGED <<arch, scen, mem, mo, prog, owned, leaked, freed, halted,
                   mainpc, failed>>

(* RcuPtr::rcu_dereference *)
RcuDereference(t, i) ==
    /\ CanIssue(t, i)
    /\ prog[t][i].op = "rcu_dereference"
    /\ LET ptr == ReadVolatile(t, AddrOf(t, i))
       IN  Mark(t, i, 0, NonNullNew(ptr), << ptr >>)
    /\ UNCHANGED <<arch, scen, mem, mo, prog, buf, owned, leaked, freed,
                   halted, mainpc, failed>>

(* The box is not leaked. *)
BoxDrop(o) == leaked

(* Box::leak(val): the box is given up and never dropped; a box passed by  *)
(* value and not leaked is dropped when the call returns.                  *)
BoxLeak(o) == leaked \cup {o}

(* RcuPtr::rcu_assign_pointer *)
RcuAssignPointer(t, i) ==
    /\ CanIssue(t, i)
    /\ prog[t][i].op = "rcu_assign_pointer"
    /\ leaked' = BoxLeak(prog[t][i].val)
    /\ freed' = freed \cup ({prog[t][i].val} \ leaked')
    /\ owned' = [owned EXCEPT ![prog[t][i].val] = 0]
    /\ buf' = [buf EXCEPT ![t] = StoreRelease(t, AddrOf(t, i), prog[t][i].val)]
    /\ Mark(t, i, 0, {}, << >>)
    /\ UNCHANGED <<arch, scen, mem, mo, prog, halted, mainpc, failed>>

(* A conditional call whose guard is false is not made. *)
Skip(t, i) ==
    /\ i \in Idx(t)
    /\ st[t][i] = "fetched"
    /\ prog[t][i].cond # 0
    /\ st[t][prog[t][i].cond] # "fetched"
    /\ ~Taken(t, prog[t][i].cond)
    /\ st' = [st EXCEPT ![t][i] = "skipped"]
    /\ UNCHANGED <<arch, scen, mem, mo, prog, ret, opt, obs, buf, owned,
                   leaked, freed, halted, mainpc, failed>>

(* A store buffer that lets a release store pass the stores before it. *)
CanFlushRelaxed(t, k) ==
    /\ k \in 1..Len(buf[t])
    /\ \/ k = 1
       \/ /\ arch # "x86_64"
          /\ \A m \in 1..(k - 1) : buf[t][m].addr # buf[t][k].addr

(* May entry k of thread t's store buffer reach memory now? *)
CanFlush(t, k) ==
    /\ k \in 1..Len(buf[t])
    /\ \/ k = 1
       \/ /\ arch # "x86_64"
          /\ ~buf[t][k].rel
          /\ \A m \in 1..(k - 1) : buf[t][m].addr # buf[t][k].addr

(* A buffered store becomes visible to every thread. *)
Flush(t, k) ==
    /\ CanFlush(t, k)
    /\ mem' = [mem EXCEPT ![buf[t][k].addr] = buf[t][k].val]
    /\ mo' = [mo EXCEPT ![buf[t][k].addr] = Append(@, buf[t][k].val)]
    /\ buf' = [buf EXCEPT ![t] = Drop(@, k)]
    /\ UNCHANGED <<arch, scen, prog, st, ret, opt, obs, owned, leaked, freed,
                   halted, mainpc, failed>>

(* The closure returns: every call made, every store out, owned boxes dropped. *)
Halt(t) ==
    /\ mainpc = "scope"
    /\ ~halted[t]
    /\ MayReturn(t)
    /\ \A i \in Idx(t) : st[t][i] # "fetched"
    /\ buf[t] = << >>
    /\ halted' = [halted EXCEPT ![t] = TRUE]
    /\ freed' = freed \cup {o \in Objects : owned[o] = t}
    /\ owned' = [o \in Objects |-> IF owned[o] = t THEN 0 ELSE owned[o]]
    /\ UNCHANGED <<arch, scen, mem, mo, prog, st, ret, opt, obs, buf, leaked,
                   mainpc, failed>>

(* p0.join(), p1.join() *)
Join ==
    /\ mainpc = "scope"
    /\ \A t \in Threads : halted[t]
    /\ mainpc' = "joined"
    /\ UNCHANGED <<arch, scen, mem, mo, prog, st, ret, opt, obs, buf, owned,
                   leaked, freed, halted, failed>>

(* The value a closure returns for call i: what it read, or 0 when the     *)
(* call was not made.                                                      *)
Out(t, i) == IF st[t][i] = "done" THEN ret[t][i] ELSE 0
OutRef(t, i) ==
    IF st[t][i] = "done" /\ opt[t][i] # {} THEN CHOOSE a \in opt[t][i] : TRUE
    ELSE Null

(* Every test asserting that the second thread does not read 1 then 0. *)
ForbiddenAll ==
    CASE scen = "LB" -> Out(1, 1) = 1 /\ Out(2, 1) = 1
      [] scen = "MPRcu" -> OutRef(2, 1) # Null /\ Out(2, 2) = 0
      [] OTHER -> Out(2, 1) = 1 /\ Out(2, 2) = 0

(* The outcome each test's assert! forbids. *)
Forbidden ==
    CASE scen = "CoRR" -> Out(2, 1) = 1 /\ Out(2, 2) = 0
      [] scen = "LB" -> Out(1, 1) = 1 /\ Out(2, 1) = 1
      [] scen = "MPRcu" -> OutRef(2, 1) # Null /\ Out(2, 2) = 0
      [] OTHER -> FALSE

(* assert!(...) after the joins *)
AssertOutcome ==
    /\ mainpc = "joined"
    /\ mainpc' = "done"
    /\ failed' = Forbidden
    /\ UNCHANGED <<arch, scen, mem, mo, prog, st, ret, opt, obs, buf, owned,
                   leaked, freed, halted>>

Next ==
    \/ \E t \in Threads : Call(t)
    \/ \E t \in Threads : \E i \in Idx(t) : ReadOnce(t, i)
    \/ \E t \in Threads : \E i \in Idx(t) : WriteOnce(t, i)
    \/ \E t \in Threads : \E i \in Idx(t) : SmpMb(t, i)
    \/ \E t \in Threads : \E i \in Idx(t) : SmpStoreRelease(t, i)
    \/ \E t \in Threads : \E i \in Idx(t) : RcuDereference(t, i)
    \/ \E t \in Threads : \E i \in Idx(t) : RcuAssignPointer(t, i)
    \/ \E t \in Threads : \E i \in Idx(t) : Skip(t, i)
    \/ \E t \in Threads : \E k \in 1..Len(buf[t]) : Flush(t, k)
    \/ \E t \in Threads : Halt(t)
    \/ Join
    \/ AssertOutcome

NextCells ==
    \/ \E t \in Threads : Call(t)
    \/ \E t \in Threads : \E i \in Idx(t) : ReadOnce(t, i)
    \/ \E t \in Threads : \E i \in Idx(t) : WriteOnce(t, i)
    \/ \E t \in Threads : \E i \in Idx(t) : SmpStoreRelease(t, i)
    \/ \E t \in Threads : \E k \in 1..Len(buf[t]) : Flush(t, k)
    \/ \E t \in Threads : Halt(t)
    \/ Join
    \/ AssertOutcome

NextRcu ==
    \/ \E t \in Threads : Call(t)
    \/ \E t \in Threads : \E i \in Idx(t) : ReadOnce(t, i)
    \/ \E t \in Threads : \E i \in Idx(t) : WriteOnce(t, i)
    \/ \E t \in Threads : \E i \in Idx(t) : RcuDereference(t, i)
    \/ \E t \in Threads : \E i \in Idx(t) : RcuAssignPointer(t, i)
    \/ \E t \in Threads : \E i \in Idx(t) : Skip(t, i)
    \/ \E t \in Threads : \E k \in 1..Len(buf[t]) : Flush(t, k)
    \/ \E t \in Threads : Halt(t)
    \/ Join
    \/ AssertOutcome

Spec == Init /\ [][Next]_vars
SpecCells == InitCells /\ [][NextCells]_vars
SpecRcu == InitRcu /\ [][NextRcu]_vars

(* The steps of thread t and of its store buffer. *)
ThreadStep(t) ==
    \/ Call(t)
    \/ \E i \in Idx(t) :
          \/ ReadOnce(t, i) \/ WriteOnce(t, i) \/ SmpMb(t, i)
          \/ SmpStoreRelease(t, i) \/ RcuDereference(t, i)
          \/ RcuAssignPointer(t, i) \/ Skip(t, i)
    \/ \E k \in 1..Len(buf[t]) : Flush(t, k)
    \/ Halt(t)

(* The litmus tests under a fair scheduler: a spawned thread that can take *)
(* a step takes one, and the main thread joins and asserts when it can.    *)
SpecFair ==
    /\ Init /\ [][Next]_vars
    /\ \A t \in Threads : WF_vars(ThreadStep(t))
    /\ WF_vars(Join \/ AssertOutcome)

(* ------------------------------ claims --------------------------------- *)
(* Call i of thread t has been made and has returned. *)
Done(t, i) == i \in Idx(t) /\ st[t][i] = "done"

(* Both closures of a litmus test have made their last call or skipped it. *)
Finished == \A t \in {1, 2} : halted[t]

(* C1: in CoRR (x = 0; p0: x.write_once(1); p1: r0 = x.read_once(),        *)
(* r1 = x.read_once()) no execution has r0 = 1 and r1 = 0.                 *)
C1_CoRR ==
    scen = "CoRR" /\ Done(2, 1) /\ Done(2, 2)
        => ~(ret[2][1] = 1 /\ ret[2][2] = 0)

(* The reader sees the write arrive between its two reads. *)
C1_Witness ==
    scen = "CoRR" /\ mainpc = "done" /\ ret[2][1] = 0 /\ ret[2][2] = 1

(* C2: in the publish/dereference test (p0: x.write_once(1),               *)
(* p.rcu_assign_pointer(x); p1: if let Some(r0) = p.rcu_dereference() then *)
(* r1 = r0.read_once()) no execution has a non-null dereference and r1 = 0.*)
C2_PublishDeref ==
    scen = "MPRcu" /\ Done(2, 1) /\ opt[2][1] # {}
        => /\ ~(Finished /\ Out(2, 2) = 0)
           /\ Done(2, 2) => ret[2][2] = 1

(* The reader got the published box and read its marker. *)
C2_Witness ==
    scen = "MPRcu" /\ mainpc = "done" /\ opt[2][1] = {O1} /\ Done(2, 2)
        /\ ret[2][2] = 1 /\ ~failed

(* C3: in the load-buffering test (p0: r0 = x.read_once(), if r0 != 0      *)
(* then y.write_once(1); p1: r0 = y.read_once(), smp_mb(),                 *)
(* x.write_once(1)) no execution has both r0 equal to 1.                   *)
C3_LoadBuffering ==
    scen = "LB" /\ Finished => ~(Out(1, 1) = 1 /\ Out(2, 1) = 1)

(* C4: in the message-passing test with relaxed accesses only the outcome  *)
(* r0 = 1, r1 = 0 is an outcome of weakly ordered targets, and no          *)
(* assertion of the test fails on it.                                      *)
C4_MessagePassing ==
    scen = "MP"
        => /\ ~failed
           /\ Done(2, 1) /\ Done(2, 2) /\ ret[2][1] = 1 /\ ret[2][2] = 0
                  => arch # "x86_64"

(* The test ends, unfailed, with the flag read as 1 and the buffer as 0. *)
C4_Witness ==
    scen = "MP" /\ mainpc = "done" /\ ret[2][1] = 1 /\ ret[2][2] = 0
        /\ ~failed

(* C10: in store buffering with smp_mb() between the store and the load    *)
(* of each thread, no execution has r0 = 0 and r1 = 0.                     *)
C10_StoreBuffering ==
    scen = "SB" /\ Finished => ~(Out(1, 3) = 0 /\ Out(2, 3) = 0)

(* The calls of thread t of kind op that have returned. *)
DoneOps(t, ops) == {i \in Idx(t) : st[t][i] = "done" /\ prog[t][i].op \in ops}

(* The values write_once and smp_store_release calls have been given. *)
WrittenTo(a) ==
    UNION {{prog[t][i].val :
              i \in {k \in DoneOps(t, {"write_once", "smp_store_release"}) :
                       AddrOf(t, k) = a}} : t \in Threads}

(* The original statement of C5: every read_once returns a value that a    *)
(* write_once or smp_store_release call wrote.                             *)
C5_OnlyWritten ==
    scen = "Cells"
        => \A t \in Threads : \A i \in DoneOps(t, {"read_once"}) :
               ret[t][i] \in WrittenTo(X)

(* C5 (amended): every read_once on a cell returns the value the cell was  *)
(* constructed with or a value that a write_once or smp_store_release      *)
(* call wrote to that cell.                                                *)
C5_InitialOrWritten ==
    scen = "Cells"
        => \A t \in Threads : \A i \in DoneOps(t, {"read_once"}) :
               ret[t][i] \in {InitVal(X)} \cup WrittenTo(X)

(* A thread has read a value another thread wrote. *)
C5_Witness ==
    /\ scen = "Cells"
    /\ \E t \in Threads : \E i \in DoneOps(t, {"read_once"}) :
           \E u \in Threads \ {t} : \E j \in DoneOps(u, {"write_once"}) :
               ret[t][i] = prog[u][j].val

(* Is v in the modification order of cell a, and where? *)
InMo(a, v) == \E k \in 1..Len(mo[a]) : mo[a][k] = v
Pos(a, v) == CHOOSE k \in 1..Len(mo[a]) : mo[a][k] = v

(* C6: the calls of the Cells family write distinct values; the order in   *)
(* which the stores reach the cell is a total modification order, and the  *)
(* reads of one thread never go backward in it.                            *)
C6_Coherence ==
    scen = "Cells"
        => /\ \A k, m \in 1..Len(mo[X]) : mo[X][k] = mo[X][m] => k = m
           /\ \A t \in Threads : \A i, k \in DoneOps(t, {"read_once"}) :
                  i < k /\ InMo(X, ret[t][i]) /\ InMo(X, ret[t][k])
                      => Pos(X, ret[t][i]) <= Pos(X, ret[t][k])

(* A thread has read the cell before and after a store of another thread  *)
(* reached it.                                                             *)
C6_Witness ==
    /\ scen = "Cells"
    /\ \E t \in Threads : \E i, k \in DoneOps(t, {"read_once"}) :
           /\ i < k
           /\ InMo(X, ret[t][i]) /\ InMo(X, ret[t][k])
           /\ Pos(X, ret[t][i]) < Pos(X, ret[t][k])
           /\ \E u \in Threads \ {t} : \E j \in DoneOps(u, {"write_once"}) :
                  ret[t][k] = prog[u][j].val

(* The boxes rcu_assign_pointer has been called with. *)
Assigned ==
    UNION {{prog[t][i].val : i \in DoneOps(t, {"rcu_assign_pointer"})} :
             t \in Threads}

(* C7: as long as no rcu_assign_pointer has been called, every             *)
(* rcu_dereference on an RcuPtr::new() has returned None.                  *)
C7_NullBeforePublish ==
    scen = "Rcu" /\ Assigned = {}
        => \A t \in Threads : \A i \in DoneOps(t, {"rcu_dereference"}) :
               opt[t][i] = {}

(* Two threads have dereferenced, one of them twice, before any publish. *)
C7_Witness ==
    /\ scen = "Rcu" /\ Assigned = {}
    /\ \E t \in Threads : Cardinality(DoneOps(t, {"rcu_dereference"})) >= 2
    /\ \A t \in {1, 2} : DoneOps(t, {"rcu_dereference"}) # {}

(* C8: the backing cell of an RcuPtr holds null or a box that was passed   *)
(* to rcu_assign_pointer and has not been freed, and no box passed to      *)
(* rcu_assign_pointer is ever freed.                                       *)
C8_PublishedNeverFreed ==
    scen = "Rcu"
        => /\ mem[P] = Null \/ (mem[P] \in Assigned /\ mem[P] \notin freed)
           /\ Assigned \cap freed = {}

(* One box is published while the other was dropped unpublished. *)
C8_Witness ==
    scen = "Rcu" /\ mem[P] \in Objects /\ freed # {} /\ mainpc = "done"

(* C9: every rcu_dereference reads the backing cell once, returns None if  *)
(* and only if it read null, and otherwise returns a reference to the      *)
(* address it read.                                                        *)
C9_DerefOneRead ==
    scen = "Rcu"
        => \A t \in Threads : \A i \in DoneOps(t, {"rcu_dereference"}) :
               /\ Len(obs[t][i]) = 1
               /\ opt[t][i] = {} <=> obs[t][i][1] = Null
               /\ opt[t][i] # {} => opt[t][i] = {obs[t][i][1]}

(* A thread has dereferenced None and then the box another thread          *)
(* published meanwhile.                                                    *)
C9_Witness ==
    /\ scen = "Rcu"
    /\ \E i, k \in DoneOps(1, {"rcu_dereference"}) :
           i < k /\ opt[1][i] = {} /\ opt[1][k] = {O2}

(* C11: smp_store_release orders nothing after it, a full barrier does:    *)
(* both loads of store buffering may return 0 after release stores, and    *)
(* never do when each store is followed by smp_mb().                       *)
C11_ReleaseWeakerThanMb ==
    scen = "SB" /\ Done(1, 3) /\ Done(2, 3)
        => ret[1][3] = 1 \/ ret[2][3] = 1

(* C12: once all the threads that called rcu_assign_pointer on one RcuPtr  *)
(* have returned, every published address has reached the backing cell and *)
(* the cell holds one of the published boxes, the last in its modification *)
(* order.                                                                  *)
C12_LastPublishWins ==
    scen = "Rcu" /\ (\A t \in Threads : halted[t]) /\ Assigned # {}
        => /\ mem[P] \in Assigned
           /\ mem[P] = mo[P][Len(mo[P])]
           /\ Len(mo[P]) = 1 + Cardinality(Assigned)

(* C13: when two boxes are published one after the other, each with its   *)
(* marker written to 1 before its publish, a reader reads marker 1 through *)
(* whichever box its rcu_dereference returns, and neither box is ever      *)
(* freed, so a reference to the first stays valid after the second         *)
(* publish.                                                                *)
C13_TwoPublishes ==
    scen = "MPRcu2"
        => /\ \A i \in DoneOps(2, {"read_once"}) : ret[2][i] = 1
           /\ \A i \in DoneOps(2, {"rcu_dereference"}) :
                  opt[2][i] # {} /\ halted[2] => Out(2, i + 1) = 1
           /\ freed = {}

(* The reader got the first box, then the second, and read marker 1        *)
(* through both.                                                           *)
C13_Witness ==
    /\ scen = "MPRcu2" /\ mainpc = "done"
    /\ opt[2][1] = {O1} /\ opt[2][3] = {O2}
    /\ ret[2][2] = 1 /\ ret[2][4] = 1

(* C14: on every target the program builds for, a returned                *)
(* smp_store_release has stored its value (the store is in the caller's    *)
(* store buffer or has reached the cell) and a returned smp_mb has waited   *)
(* for the caller's earlier stores to reach memory.                        *)
C14_SelectionTotal ==
    \A t \in Threads :
        /\ \A i \in DoneOps(t, {"smp_store_release", "rcu_assign_pointer"}) :
               \/ InMo(AddrOf(t, i), prog[t][i].val)
               \/ \E k \in 1..Len(buf[t]) :
                      /\ buf[t][k].addr = AddrOf(t, i)
                      /\ buf[t][k].val = prog[t][i].val
        /\ \A i \in DoneOps(t, {"smp_mb"}) :
               \A j \in 1..(i - 1) :
                   prog[t][j].op = "write_once" /\ prog[t][j].cond = 0
                       => Done(t, j) /\ InMo(AddrOf(t, j), prog[t][j].val)

(* C15: a spawned thread that has not returned can always take a step of  *)
(* its own, whatever the other thread does; under fair scheduling every    *)
(* litmus test reaches the state after the joins and the assertion; and a  *)
(* test fails only there.                                                  *)
C15_Terminates ==
    /\ [](\A t \in Threads :
             mainpc = "scope" /\ ~halted[t] => ENABLED ThreadStep(t))
    /\ <>(mainpc = "done" /\ Finished)
    /\ [](failed => mainpc = "done" /\ Finished)

(* Load buffering has run to its end and the assertion has passed. *)
C15_Witness ==
    /\ scen = "LB" /\ mainpc = "done" /\ Finished /\ ~failed
    /\ Done(1, 1) /\ Done(2, 1) /\ Done(2, 3)

(* The store calls of thread t that come before call i in program order. *)
StoresBefore(t, i) ==
    {j \in 1..(i - 1) : prog[t][j].op \in {"write_once", "smp_store_release"}}

(* C16: on a cell no other thread writes, read_once returns the value of   *)
(* the caller's latest write_once or smp_store_release before it, and the  *)
(* value given to SharedMem::new when there is none.                       *)
C16_ReleaseStoresValue ==
    scen = "Cells"
        => \A t \in Threads :
               (\A u \in Threads \ {t} : \A j \in Idx(u) : StoresBefore(u, j + 1) = {})
                   => \A i \in DoneOps(t, {"read_once"}) :
                          LET S == StoresBefore(t, i)
                          IN  ret[t][i] =
                                  IF S = {} THEN InitVal(X)
                                  ELSE prog[t][CHOOSE j \in S :
                                                  \A k \in S : k <= j].val

(* C17: in load buffering the store to y is issued only after thread A    *)
(* has read a non-zero x, thread B's read of y returns 0, and y holds 1    *)
(* only when A's r0 is 1.                                                  *)
C17_LoadBufferingValues ==
    scen = "LB"
        => /\ Done(1, 2) => Done(1, 1) /\ ret[1][1] # 0
           /\ Done(2, 1) => ret[2][1] = 0
           /\ mem[Y] = 1 => Done(1, 1) /\ ret[1][1] = 1

(* C18: no store after construction puts the null sentinel into the       *)
(* backing cell of an RcuPtr, and once a thread's rcu_dereference has      *)
(* returned Some, its later rcu_dereference calls return Some as well.     *)
C18_NeverBackToNull ==
    scen = "Rcu"
        => /\ \A k \in 2..Len(mo[P]) : mo[P][k] # Null
           /\ \A t \in Threads : \A k \in 1..Len(buf[t]) :
                  buf[t][k].addr = P => buf[t][k].val # Null
           /\ \A t \in Threads : \A i, k \in DoneOps(t, {"rcu_dereference"}) :
                  i < k /\ opt[t][i] # {} => opt[t][k] # {}

(* A thread has dereferenced twice and got two different boxes: another    *)
(* thread published in between.                                            *)
C18_Witness ==
    /\ scen = "Rcu"
    /\ \E t \in Threads : \E i, k \in DoneOps(t, {"rcu_dereference"}) :
           /\ i < k
           /\ opt[t][i] # {} /\ opt[t][k] # {} /\ opt[t][i] # opt[t][k]

(* Call i of thread t returns in this step. *)
Returns(t, i) == st[t][i] = "fetched" /\ st'[t][i] = "done"

(* C19: a returning read_once, smp_mb or rcu_dereference leaves every cell *)
(* and every pending store as they were; a returning write_once,           *)
(* smp_store_release or rcu_assign_pointer adds at most one store, to the  *)
(* cell it was called on and with the value it was given; and a store      *)
(* reaching memory changes that one cell only.                             *)
C19_Frame ==
    [][/\ \A t \in Threads : \A i \in Idx(t) :
            Returns(t, i)
                => /\ mem' = mem
                   /\ \A u \in Threads \ {t} : buf'[u] = buf[u]
                   /\ prog[t][i].op \in {"read_once", "smp_mb", "rcu_dereference"}
                          => buf'[t] = buf[t]
                   /\ prog[t][i].op = "write_once"
                          => /\ Len(buf'[t]) = Len(buf[t]) + 1
                             /\ buf'[t][Len(buf'[t])].addr = AddrOf(t, i)
                   /\ IsRelease(prog[t][i])
                          => \/ buf'[t] = buf[t]
                             \/ /\ Len(buf'[t]) = Len(buf[t]) + 1
                                /\ buf'[t][Len(buf'[t])].addr = AddrOf(t, i)
                   /\ \A k \in 1..Len(buf[t]) : buf'[t][k] = buf[t][k]
                   /\ \A k \in (Len(buf[t]) + 1)..Len(buf'[t]) :
                          buf'[t][k].val = prog[t][i].val
       /\ mem' # mem
            => \E t \in Threads : \E k \in 1..Len(buf[t]) :
                   mem' = [mem EXCEPT ![buf[t][k].addr] = buf[t][k].val]
      ]_vars

(* A box has been published and dereferenced, the marker read through it:  *)
(* the backing cell holds the box and the box still holds its marker.      *)
C19_Witness ==
    /\ scen = "MPRcu" /\ Finished
    /\ mem[P] = O1 /\ mem[O1] = 1 /\ mem[X] = 0 /\ mem[Y] = 0
    /\ opt[2][1] = {O1} /\ Done(2, 2)

====
